---- MODULE Spec2Model ----
(***************************************************************************)
(* Token authentication and session lifecycle of smart-budget-backend:     *)
(* the identity service (users-service: login, refresh, logout, /users/me, *)
(* the issuers and verify_token of app/auth.py, its start-up) and the       *)
(* gateway: the get_current_user dependency, the endpoints of              *)
(* routers/auth.py that pass login, refresh and logout on, and the         *)
(* endpoints of routers/transactions.py in front of the ledger service.    *)
(*                                                                         *)
(* A token string is modelled by what jose's decoder can tell about it:    *)
(* its form (a well-formed JWT, some other text, the empty string, or      *)
(* Python's None where a string is optional), the secret its signature was *)
(* made with, and its claims.  Time is the int(...timestamp()) second.     *)
(***************************************************************************)
EXTENDS Integers, Sequences, FiniteSets, TLC

\* ------------------------------------------------------------------ bounds
MaxIssues == 3      \* refresh tokens (uuid4 values) issued in one run
MaxTicks  == 1      \* clock advances in one run

\* ------------------------------------------------------------------- state
VARIABLES
  now,       \* the clock, in seconds (datetime.now / jose's utcnow)
  ticks,     \* how often the clock has advanced
  users,     \* the users table: id -> row
  uuids,     \* values uuid.uuid4() has returned so far
  issued,    \* the (access, refresh) pairs handed out in responses
  redeemed,  \* the refresh tokens POST /users/refresh has accepted
  req,       \* the last request sent to the identity service
  resp,      \* its response
  gw,        \* the gateway's part of the last exchange, if it went through it
  call,      \* the call of verify_token made for the last request, if any
  env,       \* the signing secrets as os.getenv gave them to app/auth.py
  serving,   \* the identity service has started and accepts requests
  greq,      \* the last request a client sent to the gateway
  gresp,     \* the gateway's response to it
  fwd,       \* the request the gateway sent on to the ledger service for it
  made,      \* the last call of an issuer made on its own, with what it gave
  regs,      \* the register requests the identity service is serving
  txs,       \* the ledger service's transactions table
  lreq,      \* the last query of the ledger's repository, or request to its API
  lresp      \* what came back

vars == <<now, ticks, users, uuids, issued, redeemed, req, resp, gw, call,
          env, serving, greq, gresp, fwd, made, regs, txs, lreq, lresp>>

\* ------------------------------------------------------- program constants
ACCESS_TOKEN_EXPIRE_MINUTES == 20
REFRESH_TOKEN_EXPIRE_DAYS == 7
DefaultAccessMinutes == 15
DefaultRefreshDays == 7
\* os.getenv("ACCESS_SECRET_KEY"), os.getenv("REFRESH_SECRET_KEY") at import
ACCESS_SECRET_KEY == env.access
REFRESH_SECRET_KEY == env.refresh
\* a secret the service does not hold (tokens made outside the service)
ForeignKey == "foreign-secret"

\* timedelta(minutes=m), timedelta(days=d) in seconds
Minutes(m) == m * 60
Days(d) == d * 24 * 3600

\* ------------------------------------------------------- Python values
\* Python's None where a str is expected; it equals no str value.
PyNone == "<None>"
\* str(x) for x a str or None: str(None) is the four-letter text "None".
Str(x) == IF x = PyNone THEN "None" ELSE x
\* truth value of a str-or-None: None and "" are false
Truthy(x) == x # PyNone /\ x # ""
\* str(n) and int(s) for the user ids
IntOfStr(s) == CHOOSE n \in 0..9 : ToString(n) = s

\* ------------------------------------------------------------- tokens
\* The value of an absent cookie / optional argument, and non-JWT strings.
NoToken == [form |-> "none", sig |-> "", sub |-> PyNone, exp |-> 0, iat |-> 0,
            type |-> PyNone, jti |-> PyNone, refresh_jti |-> PyNone]
EmptyString == [NoToken EXCEPT !.form = "empty"]
Garbage == [NoToken EXCEPT !.form = "text"]

\* not x, for x a token string or None
Falsy(tok) == tok.form \in {"none", "empty"}
\* where a token string was to be returned, the exception raised instead
Raised(exc) == [NoToken EXCEPT !.form = exc]
IsRaised(tok) == tok.form \in {"ValueError", "RuntimeError"}

\* What the environment can hold for a signing secret: a secret, nothing
\* (os.getenv gives None), the empty string, or blanks only.
Blank == " "
KeySettings(secret) == {secret, PyNone, "", Blank}
\* KEY and isinstance(KEY, str) and KEY.strip()
Usable(key) == Truthy(key) /\ key # Blank

\* str(uuid.uuid4()): the i-th value the generator can return
Uuid(i) == "uuid-" \o ToString(i)
Uuids == {Uuid(i) : i \in 1..MaxIssues}

\* ------------------------------------------------------------ TokenCodec
\* jwt.encode(to_encode, key, algorithm=ALGORITHM)
Encode(claims, key) == [claims EXCEPT !.form = "jwt", !.sig = key]

\* (variant: the exp claim is not compared with the clock)
DecodeNoExpiry(tok, key, t) ==
  IF tok.form # "jwt" THEN [ok |-> FALSE, err |-> "JWTError", payload |-> NoToken]
  ELSE IF tok.sig # key THEN [ok |-> FALSE, err |-> "JWTError", payload |-> NoToken]
  ELSE [ok |-> TRUE, err |-> "", payload |-> tok]

\* (variant: the signature is not checked against the key)
DecodeAnyKey(tok, key, t) ==
  IF tok.form # "jwt" THEN [ok |-> FALSE, err |-> "JWTError", payload |-> NoToken]
  ELSE IF tok.exp < t
    THEN [ok |-> FALSE, err |-> "ExpiredSignatureError", payload |-> NoToken]
  ELSE [ok |-> TRUE, err |-> "", payload |-> tok]

\* jwt.decode(token, key, algorithms=[ALGORITHM], options=...) at clock t:
\* JWTError for text that is no JWT or whose signature was not made with key,
\* then ExpiredSignatureError (a JWTError) when exp < now, else the claims.
\* jose reads the options verify_* and require_<claim> only: the "require"
\* list the callers pass in options is a key it does not know and has no
\* effect, so a token that lacks a listed claim decodes like any other.
Decode(tok, key, t) ==
  IF tok.form # "jwt" THEN [ok |-> FALSE, err |-> "JWTError", payload |-> NoToken]
  ELSE IF tok.sig # key THEN [ok |-> FALSE, err |-> "JWTError", payload |-> NoToken]
  ELSE IF tok.exp < t
    THEN [ok |-> FALSE, err |-> "ExpiredSignatureError", payload |-> NoToken]
  ELSE [ok |-> TRUE, err |-> "", payload |-> tok]

\* ----------------------------------------------------------- TokenIssuer
\* The dict an issuer is given: {"sub": sub}, or {} (no key at all).
Data(sub) == [sub |-> sub]
EmptyDict == [k \in {} |-> PyNone]
\* data.get("sub"): None for a missing key
SubOf(data) == IF "sub" \in DOMAIN data THEN data.sub ELSE PyNone

\* (variant: the lifetime asked for is not used)
create_access_token_DefaultLifetime(data, ttl, refresh_jti, t) ==
  LET expire == t + Minutes(DefaultAccessMinutes)
      to_encode == [NoToken EXCEPT !.sub = SubOf(data), !.exp = expire,
                                   !.iat = t, !.type = "access"]
      bound == IF refresh_jti # PyNone
               THEN [to_encode EXCEPT !.refresh_jti = Str(refresh_jti)]
               ELSE to_encode
  IN IF DOMAIN data = {} THEN Raised("ValueError")
     ELSE IF ~Usable(ACCESS_SECRET_KEY) THEN Raised("ValueError")
     ELSE Encode(bound, ACCESS_SECRET_KEY)

\* create_access_token(data, expires_delta=ttl, refresh_jti) at clock t.
\* ttl = 0 stands for a false expires_delta (None, timedelta(0)).
create_access_token(data, ttl, refresh_jti, t) ==
  LET expire == t + (IF ttl # 0 THEN ttl ELSE Minutes(DefaultAccessMinutes))
      to_encode == [NoToken EXCEPT !.sub = SubOf(data), !.exp = expire,
                                   !.iat = t, !.type = "access"]
      bound == IF refresh_jti # PyNone
               THEN [to_encode EXCEPT !.refresh_jti = Str(refresh_jti)]
               ELSE to_encode
  IN IF DOMAIN data = {} THEN Raised("ValueError")
     ELSE IF ~Usable(ACCESS_SECRET_KEY) THEN Raised("ValueError")
     ELSE Encode(bound, ACCESS_SECRET_KEY)

\* (variant: the jti is derived from the subject, not from uuid4)
create_refresh_token_SubjectJti(data, ttl, uuid, t) ==
  LET expire == t + (IF ttl # 0 THEN ttl ELSE Days(DefaultRefreshDays))
      to_encode == [NoToken EXCEPT !.sub = SubOf(data), !.exp = expire,
                                   !.iat = t, !.type = "refresh",
                                   !.jti = "uuid-" \o SubOf(data)]
  IN Encode(to_encode, REFRESH_SECRET_KEY)

\* create_refresh_token(data, expires_delta=ttl) at clock t, with uuid the
\* value uuid.uuid4() returns in this call.
create_refresh_token(data, ttl, uuid, t) ==
  LET expire == t + (IF ttl # 0 THEN ttl ELSE Days(DefaultRefreshDays))
      to_encode == [NoToken EXCEPT !.sub = SubOf(data), !.exp = expire,
                                   !.iat = t, !.type = "refresh",
                                   !.jti = Str(uuid)]
  IN IF DOMAIN data = {} THEN Raised("ValueError")
     ELSE IF ~Usable(REFRESH_SECRET_KEY) THEN Raised("ValueError")
     ELSE Encode(to_encode, REFRESH_SECRET_KEY)

\* ---------------------------------------------------------- TokenVerifier
\* What verify_token returns: the access payload, or None.  "at" names the
\* return statement taken; the caller sees the payload or None only.
Payload(p) == [ok |-> TRUE, payload |-> p, at |-> "return payload"]
None(at) == [ok |-> FALSE, payload |-> NoToken, at |-> at]

\* (variant: the two ids are not compared)
verify_token_NoJtiCheck(token, refresh_token_from_cookie, t) ==
  LET access == Decode(token, ACCESS_SECRET_KEY, t)
      payload == access.payload
      refresh_jti_in_access == Str(payload.refresh_jti)
      refresh == Decode(refresh_token_from_cookie, REFRESH_SECRET_KEY, t)
  IN IF ~access.ok THEN None("access JWTError")
     ELSE IF Truthy(refresh_jti_in_access)
       THEN IF Falsy(refresh_token_from_cookie) THEN None("no refresh token")
            ELSE IF ~refresh.ok THEN None("refresh JWTError")
            ELSE Payload(payload)
     ELSE Payload(payload)

\* (variant: a refresh token that was redeemed no longer vouches for a token)
verify_token_Revoking(token, refresh_token_from_cookie, t) ==
  LET access == Decode(token, ACCESS_SECRET_KEY, t)
      payload == access.payload
      refresh_jti_in_access == Str(payload.refresh_jti)
      refresh == Decode(refresh_token_from_cookie, REFRESH_SECRET_KEY, t)
      current_refresh_jti == Str(refresh.payload.jti)
  IN IF ~access.ok THEN None("access JWTError")
     ELSE IF Truthy(refresh_jti_in_access)
       THEN IF Falsy(refresh_token_from_cookie) THEN None("no refresh token")
            ELSE IF ~refresh.ok THEN None("refresh JWTError")
            ELSE IF refresh_token_from_cookie \in redeemed
              THEN None("redeemed")
            ELSE IF refresh_jti_in_access # current_refresh_jti
              THEN None("jti mismatch")
            ELSE Payload(payload)
     ELSE Payload(payload)

\* verify_token(token, refresh_token_from_cookie) at clock t
verify_token(token, refresh_token_from_cookie, t) ==
  LET access == Decode(token, ACCESS_SECRET_KEY, t)
      payload == access.payload
      refresh_jti_in_access == Str(payload.refresh_jti)
      refresh == Decode(refresh_token_from_cookie, REFRESH_SECRET_KEY, t)
      current_refresh_jti == Str(refresh.payload.jti)
  IN IF ~access.ok THEN None("access JWTError")
     ELSE IF Truthy(refresh_jti_in_access)
       THEN IF Falsy(refresh_token_from_cookie) THEN None("no refresh token")
            ELSE IF ~refresh.ok THEN None("refresh JWTError")
            ELSE IF refresh_jti_in_access # current_refresh_jti
              THEN None("jti mismatch")
            ELSE Payload(payload)
     ELSE Payload(payload)

\* A call of verify_token: its arguments, the clock and what it returned.
Call(token, cookie, t) ==
  [token |-> token, cookie |-> cookie, t |-> t,
   result |-> verify_token(token, cookie, t)]
NoCall == [token |-> NoToken, cookie |-> NoToken, t |-> 0, result |-> None("")]

\* --------------------------------------------------------------- storage
\* CredentialHasher: pwd_context.hash / pwd_context.verify (argon2)
get_password_hash(password) == "argon2$" \o password
verify_password(plain_password, hashed_password) ==
  get_password_hash(plain_password) = hashed_password

EmailOf(i) == "user" \o ToString(i) \o "@example.com"
PasswordOf(i) == "password" \o ToString(i)
UserRow(i, active) ==
  [id |-> i, email |-> EmailOf(i),
   hashed_password |-> get_password_hash(PasswordOf(i)), is_active |-> active]
\* The rows the table holds: two active users and an inactive one.
ActiveUserIds == {1, 2}
UserIds == ActiveUserIds \cup {3}
\* the result of scalar_one_or_none() when no row matches
NoUser == [id |-> 0, email |-> "", hashed_password |-> "", is_active |-> FALSE]

\* UserRepository.get_by_email / get_by_id over the table rows
get_by_email(rows, email) ==
  IF \E u \in rows : u.email = email
  THEN CHOOSE u \in rows : u.email = email ELSE NoUser
get_by_id(rows, user_id) ==
  IF \E u \in rows : u.id = user_id
  THEN CHOOSE u \in rows : u.id = user_id ELSE NoUser

\* ------------------------------------------------------------- responses
\* An HTTP response of the identity service: status, "detail" (or "msg"),
\* the body's access_token, the Set-Cookie for refresh_token (cookie_op is
\* "set", "delete" or "none") and the profile's email for /users/me.
Response(status, detail) ==
  [status |-> status, detail |-> detail, access_token |-> NoToken,
   cookie_op |-> "none", cookie |-> NoToken, email |-> ""]
TokenResponse(access, refresh) ==
  [Response(200, "") EXCEPT !.access_token = access, !.cookie_op = "set",
                            !.cookie = refresh]
NoResponse == Response(0, "")
\* the answer to a request whose handler let an exception escape
InternalServerError == Response(500, "Internal Server Error")

\* A request to the identity service.
Request(op, email, password, token, cookie) ==
  [op |-> op, email |-> email, password |-> password, token |-> token,
   cookie |-> cookie]
NoRequest == Request("", "", "", NoToken, NoToken)


\* ------------------------------------------------------------- handlers
\* (variant: is_active is not looked at)
login_NoActiveCheck(email, password, uuid) ==
  LET user == get_by_email(users, email)
  IN IF user = NoUser \/ ~verify_password(password, user.hashed_password)
       THEN Response(401, "Incorrect email or password")
     ELSE TokenResponse(
            create_access_token(Data(ToString(user.id)),
                                Minutes(ACCESS_TOKEN_EXPIRE_MINUTES), PyNone, now),
            create_refresh_token(Data(ToString(user.id)),
                                 Days(REFRESH_TOKEN_EXPIRE_DAYS), uuid, now))

\* POST /users/login with user_data = (email, password); uuid is what
\* uuid.uuid4() returns if create_refresh_token is reached.
login(email, password, uuid) ==
  LET user == get_by_email(users, email)
      access_token == create_access_token(Data(ToString(user.id)),
                        Minutes(ACCESS_TOKEN_EXPIRE_MINUTES), PyNone, now)
      refresh_token == create_refresh_token(Data(ToString(user.id)),
                        Days(REFRESH_TOKEN_EXPIRE_DAYS), uuid, now)
  IN IF user = NoUser \/ ~verify_password(password, user.hashed_password)
       THEN Response(401, "Incorrect email or password")
     ELSE IF ~user.is_active THEN Response(400, "Inactive user")
     ELSE IF IsRaised(access_token) \/ IsRaised(refresh_token)
       THEN InternalServerError
     ELSE TokenResponse(access_token, refresh_token)

\* (variant: a refresh token redeemed before is refused)
refresh_token_OneUse(cookie, uuid) ==
  LET decoded == Decode(cookie, REFRESH_SECRET_KEY, now)
      user_id == decoded.payload.sub
  IN IF Falsy(cookie) THEN Response(401, "Refresh token missing")
     ELSE IF decoded.err = "ExpiredSignatureError"
       THEN Response(401, "Refresh token expired")
     ELSE IF ~decoded.ok \/ cookie \in redeemed
       THEN Response(401, "Invalid refresh token")
     ELSE IF decoded.payload.type # "refresh"
       THEN Response(401, "Invalid token type")
     ELSE IF ~Truthy(user_id) THEN Response(401, "Invalid token claims")
     ELSE TokenResponse(
            create_access_token(Data(user_id), Minutes(ACCESS_TOKEN_EXPIRE_MINUTES),
                                PyNone, now),
            create_refresh_token(Data(user_id), Days(REFRESH_TOKEN_EXPIRE_DAYS),
                                 uuid, now))

\* (variant: the type claim of the refresh token is not looked at)
refresh_token_AnyType(cookie, uuid) ==
  LET decoded == Decode(cookie, REFRESH_SECRET_KEY, now)
      user_id == decoded.payload.sub
  IN IF Falsy(cookie) THEN Response(401, "Refresh token missing")
     ELSE IF decoded.err = "ExpiredSignatureError"
       THEN Response(401, "Refresh token expired")
     ELSE IF ~decoded.ok THEN Response(401, "Invalid refresh token")
     ELSE IF ~Truthy(user_id) THEN Response(401, "Invalid token claims")
     ELSE TokenResponse(
            create_access_token(Data(user_id), Minutes(ACCESS_TOKEN_EXPIRE_MINUTES),
                                PyNone, now),
            create_refresh_token(Data(user_id), Days(REFRESH_TOKEN_EXPIRE_DAYS),
                                 uuid, now))

\* POST /users/refresh with the request's refresh_token cookie
refresh_token(cookie, uuid) ==
  LET decoded == Decode(cookie, REFRESH_SECRET_KEY, now)
      payload == decoded.payload
      user_id == payload.sub
      new_access_token == create_access_token(Data(user_id),
                            Minutes(ACCESS_TOKEN_EXPIRE_MINUTES), PyNone, now)
      new_refresh_token == create_refresh_token(Data(user_id),
                            Days(REFRESH_TOKEN_EXPIRE_DAYS), uuid, now)
  IN IF Falsy(cookie) THEN Response(401, "Refresh token missing")
     ELSE IF decoded.err = "ExpiredSignatureError"
       THEN Response(401, "Refresh token expired")
     ELSE IF ~decoded.ok THEN Response(401, "Invalid refresh token")
     ELSE IF payload.type # "refresh" THEN Response(401, "Invalid token type")
     ELSE IF ~Truthy(user_id) THEN Response(401, "Invalid token claims")
     ELSE IF IsRaised(new_access_token) \/ IsRaised(new_refresh_token)
       THEN InternalServerError
     ELSE TokenResponse(new_access_token, new_refresh_token)

\* POST /users/logout
logout == [Response(200, "Logged out") EXCEPT !.cookie_op = "delete"]

\* GET /users/me?token=...  (the identity service's get_current_user)
users_get_current_user(token) ==
  LET payload == verify_token(token, NoToken, now)
      user_id == IntOfStr(payload.payload.sub)
      user == get_by_id(users, user_id)
  IN IF ~payload.ok THEN Response(401, "Invalid token")
     ELSE IF user = NoUser THEN Response(404, "User not found")
     ELSE [Response(200, "") EXCEPT !.email = user.email]

\* -------------------------------------------------------------- gateway
\* The Authorization header: absent, "Bearer <token>", or other text.
NoHeader == [form |-> "none", token |-> NoToken]
Bearer(token) == [form |-> "bearer", token |-> token]
OtherHeader == [form |-> "other", token |-> Garbage]

\* Exceptions met in the gateway, and str(e)
HTTPException(status_code, detail) ==
  [exc |-> "HTTPException", status_code |-> status_code, detail |-> detail]
\* an exception of httpx or of the code around the call, with its message
NetworkError(exc, message) == [exc |-> exc, status_code |-> 0, detail |-> message]
StrOfException(e) ==
  IF e.exc = "HTTPException" THEN ToString(e.status_code) \o ": " \o e.detail
  ELSE e.detail
\* how a call of the identity service can end
NetOutcomes == {"response", "ConnectError", "TimeoutException", "OtherError"}
\* texts an exception raised during the call can carry
ExceptionMessages ==
  {"All connection attempts failed", "[Errno -2] Name or service not known"}
\* How a call can end, with the exception's message: the message of a refused
\* connection or a timeout is never read, so one stands for all.
CallOutcomes ==
  {<<net, "All connection attempts failed">> : net \in NetOutcomes}
    \cup {<<"OtherError", message>> : message \in ExceptionMessages}

\* What the dependency gives its endpoint: the user, or the response FastAPI
\* makes of the HTTPException it raised.
Authenticated(response, authorization, net) ==
  [authorization |-> authorization, net |-> net, upstream |-> response.status,
   status |-> 200, detail |-> "", email |-> response.email]
Rejected(e, response, authorization, net) ==
  [authorization |-> authorization, net |-> net, upstream |-> response.status,
   status |-> e.status_code, detail |-> e.detail, email |-> ""]
NoGateway == Authenticated(NoResponse, NoHeader, "") 

\* (variant: every exception is reported as the service being unavailable)
MapException_AllUnavailable(e) ==
  HTTPException(503, "Users service is currently unavailable")

\* the except clauses of the try around the call of the identity service
MapException(e) ==
  IF e.exc = "ConnectError"
    THEN HTTPException(503, "Users service is currently unavailable")
  ELSE IF e.exc = "TimeoutException"
    THEN HTTPException(504, "Users service request timeout")
  ELSE HTTPException(500, "Internal server error: " \o StrOfException(e))

\* (variant: a header that does not start with "Bearer " is not rejected but
\* its text sent on as the token)
gateway_get_current_user_NoFormatCheck(authorization, net, message) ==
  LET token == authorization.token
      response == IF net = "response" THEN users_get_current_user(token)
                  ELSE NoResponse
  IN IF authorization.form = "none"
       THEN Rejected(HTTPException(401, "Authorization header is required"),
                     NoResponse, authorization, "")
     ELSE IF net # "response"
       THEN Rejected(MapException(NetworkError(net, message)), response,
                     authorization, net)
     ELSE IF response.status = 200
       THEN Authenticated(response, authorization, net)
     ELSE Rejected(MapException(HTTPException(response.status, response.detail)),
                   response, authorization, net)

\* get_current_user(authorization) of the gateway, the call of the identity
\* service ending as net says (with this message, if it ends in an exception)
gateway_get_current_user(authorization, net, message) ==
  LET token == authorization.token
      response == IF net = "response" THEN users_get_current_user(token)
                  ELSE NoResponse
      error_detail == response.detail
  IN IF authorization.form = "none"
       THEN Rejected(HTTPException(401, "Authorization header is required"),
                     NoResponse, authorization, "")
     ELSE IF authorization.form # "bearer"
       THEN Rejected(HTTPException(401,
              "Invalid authorization header format. Expected: Bearer <token>"),
              NoResponse, authorization, "")
     ELSE IF net # "response"
       THEN Rejected(MapException(NetworkError(net, message)), response,
                     authorization, net)
     ELSE IF response.status = 200
       THEN Authenticated(response, authorization, net)
     ELSE Rejected(MapException(HTTPException(response.status, error_detail)),
                   response, authorization, net)

\* A client's request to the gateway: the endpoint, the Authorization header,
\* the token query parameter and the refresh_token cookie.
GatewayRequest(endpoint, authorization, query, cookie) ==
  [endpoint |-> endpoint, authorization |-> authorization, query |-> query,
   cookie |-> cookie]
NoGatewayRequest == GatewayRequest("", NoHeader, NoToken, NoToken)
\* The call an endpoint of the gateway made to a collaborator service ("users"
\* or "transactions"): its X-User-ID header, if it has one, and how it ended.
Forward(to, x_user_id, net) ==
  [sent |-> TRUE, to |-> to, x_user_id |-> x_user_id, net |-> net]
NoForward == [sent |-> FALSE, to |-> "", x_user_id |-> "", net |-> ""]

\* What FastAPI answers when an endpoint raises HTTPException: a JSON body
\* with the detail and the exception's own headers.  Cookies set or deleted
\* on the endpoint's Response parameter are merged into the answer of a
\* normal return only, so they are not on this one.
ExceptionResponse(e) == Response(e.status_code, e.detail)

\* The try/except around the call of the identity service in the endpoints of
\* routers/auth.py: only httpx.ConnectError is caught; an HTTPException raised
\* inside passes, any other exception escapes the endpoint.
ProxyExcept(e) ==
  IF e.exc = "ConnectError"
    THEN ExceptionResponse(HTTPException(503, "Users service unavailable"))
  ELSE IF e.exc = "HTTPException" THEN ExceptionResponse(e)
  ELSE InternalServerError

\* POST /auth/login: response_internal is the identity service's answer when
\* the call ended with one (net = "response")
gateway_login(response_internal, net) ==
  IF net # "response" THEN ProxyExcept(NetworkError(net, ""))
  ELSE IF response_internal.status >= 400
    THEN ProxyExcept(HTTPException(response_internal.status,
                                   response_internal.detail))
  ELSE response_internal

\* POST /auth/refresh: the cookie sent on, and the answer
ForwardedCookie(cookie) == IF cookie = NoToken THEN EmptyString ELSE cookie
gateway_refresh_token(response_internal, net) ==
  IF net # "response" THEN ProxyExcept(NetworkError(net, ""))
  ELSE IF response_internal.status >= 400
    THEN ProxyExcept(HTTPException(response_internal.status,
                                   response_internal.detail))
  ELSE response_internal

\* POST /auth/logout
gateway_logout(response_internal, net) ==
  IF net # "response"
    THEN ProxyExcept(NetworkError(net, ""))   \* delete_cookie, then raise
  ELSE IF response_internal.status >= 400
    THEN ProxyExcept(HTTPException(response_internal.status,
                                   response_internal.detail))
  ELSE [Response(200, "Logged out") EXCEPT !.cookie_op = "delete"]

\* GET /auth/me: the endpoint returns what the dependency gave it
get_me(current_user) ==
  IF current_user.status = 200
  THEN [Response(200, "") EXCEPT !.email = current_user.email]
  ELSE Response(current_user.status, current_user.detail)

\* ------------------------------------------- the gateway's ledger endpoints
\* response.json() of GET /users/me, which get_current_user returns: the
\* fields of UserResponse.  Of these the model keeps the email; the others
\* are the names, is_active and the two dates.  None is called user_id.
UserJson(current_user) == [email |-> current_user.email]

\* The ledger service's answers to the two calls: its router has the single
\* route GET /transactions/, so a POST to it is 405 and /categories is 404.
ledger_post_transactions == Response(405, "Method Not Allowed")
ledger_get_categories == Response(404, "Not Found")

\* the except clauses of the endpoints of routers/transactions.py
TransactionsExcept(e) ==
  IF e.exc = "ConnectError"
    THEN ExceptionResponse(HTTPException(503, "Transaction service is unavailable"))
  ELSE IF e.exc = "TimeoutException"
    THEN ExceptionResponse(HTTPException(504, "Transactions service timeout"))
  ELSE IF e.exc = "HTTPException" THEN ExceptionResponse(e)
  ELSE InternalServerError

\* the rest of an endpoint once its call of the ledger service is made
AfterLedgerCall(response, net) ==
  IF net # "response" THEN TransactionsExcept(NetworkError(net, ""))
  ELSE IF response.status = 200 THEN response
  ELSE TransactionsExcept(HTTPException(response.status, response.detail))

\* POST /transactions/ of the gateway, given what its dependency
\* get_current_user came to: the answer and the call made to the ledger
gateway_get_transactions(current_user, net) ==
  LET json == UserJson(current_user) IN
  IF current_user.status # 200
    THEN [response |-> Response(current_user.status, current_user.detail),
          forward |-> NoForward]
  ELSE IF "user_id" \notin DOMAIN json        \* current_user["user_id"]: KeyError
    THEN [response |-> InternalServerError, forward |-> NoForward]
  ELSE [response |-> AfterLedgerCall(ledger_post_transactions, net),
        forward |-> Forward("transactions", ToString(json["user_id"]), net)]

\* GET /transactions/categories of the gateway
gateway_get_categories(current_user, net) ==
  IF current_user.status # 200
    THEN [response |-> Response(current_user.status, current_user.detail),
          forward |-> NoForward]
  ELSE [response |-> AfterLedgerCall(ledger_get_categories, net),
        forward |-> Forward("transactions", "", net)]

\* ------------------------------------------------------------- the client
\* Tokens made outside the service, signed with a secret it does not hold.
ForgedAccess ==
  Encode([NoToken EXCEPT !.sub = "1", !.exp = Days(2 * REFRESH_TOKEN_EXPIRE_DAYS),
                         !.type = "access"], ForeignKey)
ForgedRefresh ==
  Encode([NoToken EXCEPT !.sub = "1", !.exp = Days(2 * REFRESH_TOKEN_EXPIRE_DAYS),
                         !.type = "refresh", !.jti = Uuid(1)], ForeignKey)
\* What a client can put where a token is expected: what the service handed
\* out, in either place, and text of its own making.
ClientTokens ==
  {p.access : p \in issued} \cup {p.refresh : p \in issued}
    \cup {Garbage, ForgedAccess, ForgedRefresh}
ClientCookies == ClientTokens \cup {NoToken, EmptyString}
\* The cookie jar beside a token: empty, or the refresh token that came with it.
CookiesBeside(token) == {p.refresh : p \in {q \in issued : q.access = token}} \cup {NoToken}
\* the Authorization headers a client sends: none, other text, a Bearer
\* header with text of its own, with a forged token or with an access token
\* it was given
ClientHeaders ==
  {NoHeader, OtherHeader, Bearer(Garbage), Bearer(ForgedAccess)}
     \cup {Bearer(p.access) : p \in issued}
\* The evidence a client sends to a protected endpoint of the gateway, as
\* (Authorization header, token query parameter): any header without the
\* parameter, and no header with an access token it was given as the
\* parameter.
GatewayEvidence ==
  {<<a, NoToken>> : a \in ClientHeaders}
    \cup {<<NoHeader, p.access>> : p \in issued}
\* (email, password) a client logs in with: each user's own, a wrong password,
\* an email nobody has.
LoginAttempts ==
  {<<EmailOf(i), PasswordOf(i)>> : i \in UserIds}
    \cup {<<EmailOf(1), PasswordOf(2)>>, <<EmailOf(0), PasswordOf(1)>>}

\* uuid.uuid4(): the value it may return now, never one it returned before.
\* The values are interchangeable, so they are drawn in the order of Uuid.
uuid4 ==
  LET unused == {i \in 1..MaxIssues : Uuid(i) \notin uuids}
  IN {Uuid(i) : i \in {j \in unused : \A k \in unused : j <= k}}

\* The clock advances by one access or one refresh lifetime: a token is met
\* at its exp (still accepted: jose rejects exp < now) and beyond it.
ClockSteps == {Minutes(ACCESS_TOKEN_EXPIRE_MINUTES), Days(REFRESH_TOKEN_EXPIRE_DAYS)}

\* ------------------------------------------------- issuers applied alone
\* A call of an issuer: the function, its arguments, the clock and what it
\* returned (a token, or the exception it raised).
Issue(fn, data, ttl, refresh_jti, t, token) ==
  [fn |-> fn, data |-> data, ttl |-> ttl, refresh_jti |-> refresh_jti,
   t |-> t, token |-> token]
NoIssue == Issue("", EmptyDict, 0, PyNone, 0, NoToken)

\* --------------------------------------------------- the ledger service
\* The rows the transactions table can hold (models.py: Transaction): row i
\* belongs to user 1 or 2; merchant_id is a set, empty for NULL.  Rows 1..3
\* share their created_at.
MaxTxs == 4
Tx(i) ==
  [id |-> i, user_id |-> 1 + (i % 2), category_id |-> 1 + (i % 3),
   amount |-> 10 * i, created_at |-> i \div 4,
   type |-> IF i % 3 = 0 THEN "income" ELSE "expense",
   merchant_id |-> IF i % 2 = 0 THEN {} ELSE {1}]
TxPool == {Tx(i) : i \in 1..MaxTxs}
\* the result of scalar_one_or_none() when no row matches
NoTransaction ==
  [id |-> 0, user_id |-> 0, category_id |-> 0, amount |-> 0, created_at |-> 0,
   type |-> "", merchant_id |-> {}]

\* The arguments of get_transactions_with_filters.  An Optional argument is
\* a set: {} for None, {v} for the value v; the two lists are sets, empty
\* for None and for []; transaction_type is "" for None and for "".
Filters(user_id, transaction_type, category_ids, start_date, end_date, min_amount, max_amount, merchant_ids, limit, offset) ==
  [user_id |-> user_id, transaction_type |-> transaction_type,
   category_ids |-> category_ids, start_date |-> start_date,
   end_date |-> end_date, min_amount |-> min_amount,
   max_amount |-> max_amount, merchant_ids |-> merchant_ids,
   limit |-> limit, offset |-> offset]

\* the where-clauses the optional filters add to the query
Filtered(r, q) ==
  /\ (q.transaction_type # "" => r.type = q.transaction_type)
  /\ (q.category_ids # {} => r.category_id \in q.category_ids)
  /\ \A d \in q.start_date : r.created_at >= d
  /\ \A d \in q.end_date : r.created_at <= d
  /\ \A a \in q.min_amount : r.amount >= a
  /\ \A a \in q.max_amount : r.amount <= a
  /\ (q.merchant_ids # {}
        => r.merchant_id # {} /\ r.merchant_id \subseteq q.merchant_ids)

\* order_by(Transaction.created_at.desc()): every order of the rows the
\* database may return them in; rows with equal created_at come in any order
OrderByCreatedAtDesc(rows) ==
  LET n == Cardinality(rows)
  IN {s \in [1..n -> rows] :
        /\ \A i, j \in 1..n : i # j => s[i] # s[j]
        /\ \A i, j \in 1..n : i < j => s[i].created_at >= s[j].created_at}

\* .limit(limit).offset(offset)
LimitOffset(s, limit, offset) ==
  SubSeq(s, offset + 1, IF offset + limit < Len(s) THEN offset + limit ELSE Len(s))

\* (variant: the query has no clause on user_id)
get_transactions_with_filters_AnyUser(rows, q) ==
  LET matching == {r \in rows : Filtered(r, q)}
  IN {LimitOffset(s, q.limit, q.offset) : s \in OrderByCreatedAtDesc(matching)}

\* TransactionRepository.get_transactions_with_filters over the table rows:
\* the lists of rows the query may return
get_transactions_with_filters(rows, q) ==
  LET matching == {r \in rows : r.user_id = q.user_id /\ Filtered(r, q)}
  IN {LimitOffset(s, q.limit, q.offset) : s \in OrderByCreatedAtDesc(matching)}

\* TransactionRepository.get_transaction_by_id(transaction_id, user_id)
get_transaction_by_id(rows, transaction_id, user_id) ==
  LET matching == {r \in rows : r.id = transaction_id /\ r.user_id = user_id}
  IN IF matching = {} THEN NoTransaction ELSE CHOOSE r \in matching : TRUE

\* A call of the repository or a request to the service, and what came back.
NoLedgerRequest == [fn |-> ""]
NoLedgerResponse == [status |-> 0]

\* ------------------------------------------------ the ledger service's API
\* A text is the sequence of its characters.  int(text) for a text without
\* blanks around it (a header or query value arrives without them): an
\* optional sign, then digits, single underscores allowed between digits.
RECURSIVE DigitsValue(_)
DigitsValue(s) ==
  IF s = <<>> THEN 0
  ELSE 10 * DigitsValue(SubSeq(s, 1, Len(s) - 1))
         + (CHOOSE n \in 0..9 : ToString(n) = s[Len(s)])
PyInt(text) ==
  LET signed == text # <<>> /\ text[1] \in {"+", "-"}
      body == IF signed THEN Tail(text) ELSE text
      digits == SelectSeq(body, LAMBDA c : c # "_")
      wellformed ==
        /\ body # <<>>
        /\ \A i \in 1..Len(body) :
             body[i] \in {ToString(n) : n \in 0..9} \cup {"_"}
        /\ body[1] # "_" /\ body[Len(body)] # "_"
        /\ \A i \in 1..(Len(body) - 1) : ~(body[i] = "_" /\ body[i + 1] = "_")
  IN IF ~wellformed THEN [ok |-> FALSE, value |-> 0]
     ELSE [ok |-> TRUE,
           value |-> IF signed /\ text[1] = "-" THEN 0 - DigitsValue(digits)
                     ELSE DigitsValue(digits)]

\* What the service answered, the user_id its handler was given (0 if the
\* handler was not run) and whether the repository's query was executed.
LedgerResponse(status, detail, user_id, queried) ==
  [status |-> status, detail |-> detail, user_id |-> user_id,
   queried |-> queried]

\* (variant: zero passes as a user id)
get_user_id_from_header_ZeroAllowed(x_user_id) ==
  LET user_id == PyInt(x_user_id)
  IN IF ~user_id.ok \/ user_id.value < 0
       THEN [ok |-> FALSE, user_id |-> 0,
             exc |-> HTTPException(400, "Invalid user ID in headers")]
     ELSE [ok |-> TRUE, user_id |-> user_id.value, exc |-> HTTPException(0, "")]

\* get_user_id_from_header(x_user_id): the user id, or the HTTPException
get_user_id_from_header(x_user_id) ==
  LET user_id == PyInt(x_user_id)
  IN IF ~user_id.ok \/ user_id.value <= 0
       THEN [ok |-> FALSE, user_id |-> 0,
             exc |-> HTTPException(400, "Invalid user ID in headers")]
     ELSE [ok |-> TRUE, user_id |-> user_id.value, exc |-> HTTPException(0, "")]

\* the TypeError of calling get_transactions_with_filters with category_mcc=,
\* a keyword the method does not have
UnexpectedKeyword ==
  NetworkError("TypeError",
    "TransactionRepository.get_transactions_with_filters() got an unexpected keyword argument 'category_mcc'")

\* GET /transactions/ of the ledger service with the X-User-ID header (a set:
\* empty if the header is absent) and the category_mcc values; the other
\* query parameters are valid and have no part in the outcome
ledger_get_transactions(x_user_id, category_mcc) ==
  LET header == CHOOSE text \in x_user_id : TRUE
      user == get_user_id_from_header(header)
      bad_mcc == \E i \in 1..Len(category_mcc) : ~PyInt(category_mcc[i]).ok
      e == IF bad_mcc THEN HTTPException(400, "Invalid MCC codes format")
           ELSE UnexpectedKeyword
  IN IF x_user_id = {} THEN LedgerResponse(422, "Field required", 0, FALSE)
     ELSE IF ~user.ok
       THEN LedgerResponse(user.exc.status_code, user.exc.detail, 0, FALSE)
     ELSE LedgerResponse(500, "Internal server error: " \o StrOfException(e),
                         user.user_id, FALSE)

\* ---------------------------------------------------------- registration
\* The register requests being served, in the order they arrived, and what
\* the users table's definition says about email (app/models.py of the
\* identity service is not among the sources: either can be the case).
Registrations(unique_email, requests) ==
  [unique_email |-> unique_email, requests |-> requests]
NoRegistrations == Registrations(TRUE, <<>>)
MaxRegisters == 3

\* UserRepository.exists_with_email: get_by_email(email) is not None, where
\* scalar_one_or_none() raises MultipleResultsFound for more than one row
exists_with_email(rows, email) ==
  LET found == {u \in rows : u.email = email}
  IN IF found = {} THEN "False"
     ELSE IF Cardinality(found) = 1 THEN "True"
     ELSE "MultipleResultsFound"

\* UserRepository.create: the row db.add and db.commit leave in the table
NewUserRow(rows, email, hashed_password) ==
  [id |-> 1 + Cardinality(rows) + Cardinality(UserIds \ {u.id : u \in rows}),
   email |-> email, hashed_password |-> hashed_password, is_active |-> TRUE]
\* the answer of register for the created row (response_model=UserResponse)
Registered(email) == [Response(200, "") EXCEPT !.email = email]

\* ------------------------------------------------------------ the system
Init ==
  /\ now = 0
  /\ ticks = 0
  /\ users = {UserRow(i, i \in ActiveUserIds) : i \in UserIds}
  /\ uuids = {}
  /\ issued = {}
  /\ redeemed = {}
  /\ req = NoRequest
  /\ resp = NoResponse
  /\ gw = NoGateway
  /\ call = NoCall
  /\ env = [access |-> "access-secret", refresh |-> "refresh-secret"]
  /\ serving = TRUE
  /\ greq = NoGatewayRequest
  /\ gresp = NoResponse
  /\ fwd = NoForward
  /\ made = NoIssue
  /\ regs = NoRegistrations
  /\ txs = {}
  /\ lreq = NoLedgerRequest
  /\ lresp = NoLedgerResponse

Tick ==
  /\ ticks < MaxTicks
  /\ \E d \in ClockSteps : now' = now + d
  /\ ticks' = ticks + 1
  /\ UNCHANGED <<made, regs, txs, lreq, lresp, env, serving, greq, gresp, fwd, users, uuids, issued, redeemed, req, resp, gw, call>>

\* what a token response adds to the tokens in clients' hands
Handed(r, by) ==
  IF r.status = 200
  THEN {[access |-> r.access_token, refresh |-> r.cookie, by |-> by]} ELSE {}

Login ==
  \E attempt \in LoginAttempts, uuid \in uuid4 :
    LET r == login(attempt[1], attempt[2], uuid) IN
    /\ req' = Request("login", attempt[1], attempt[2], NoToken, NoToken)
    /\ resp' = r
    /\ issued' = issued \cup Handed(r, "login")
    /\ uuids' = IF r.status = 200 THEN uuids \cup {uuid} ELSE uuids
    /\ gw' = NoGateway /\ greq' = NoGatewayRequest
    /\ gresp' = NoResponse /\ fwd' = NoForward
    /\ call' = NoCall
    /\ UNCHANGED <<made, regs, txs, lreq, lresp, env, serving, now, ticks, users, redeemed>>

Refresh ==
  \E cookie \in ClientCookies, uuid \in uuid4 :
    LET r == refresh_token(cookie, uuid) IN
    /\ req' = Request("refresh", "", "", NoToken, cookie)
    /\ resp' = r
    /\ issued' = issued \cup Handed(r, "refresh")
    /\ uuids' = IF r.status = 200 THEN uuids \cup {uuid} ELSE uuids
    /\ redeemed' = IF r.status = 200 THEN redeemed \cup {cookie} ELSE redeemed
    /\ gw' = NoGateway /\ greq' = NoGatewayRequest
    /\ gresp' = NoResponse /\ fwd' = NoForward
    /\ call' = NoCall
    /\ UNCHANGED <<made, regs, txs, lreq, lresp, env, serving, now, ticks, users>>

Logout ==
    /\ req' = Request("logout", "", "", NoToken, NoToken)
    /\ resp' = logout
    /\ gw' = NoGateway /\ greq' = NoGatewayRequest
    /\ gresp' = NoResponse /\ fwd' = NoForward
    /\ call' = NoCall
    /\ UNCHANGED <<made, regs, txs, lreq, lresp, env, serving, now, ticks, users, uuids, issued, redeemed>>

Me ==
  \E token \in ClientTokens : \E cookie \in CookiesBeside(token) :
    /\ req' = Request("me", "", "", token, cookie)
    /\ resp' = users_get_current_user(token)
    /\ gw' = NoGateway /\ greq' = NoGatewayRequest
    /\ gresp' = NoResponse /\ fwd' = NoForward
    /\ call' = Call(token, NoToken, now)
    /\ UNCHANGED <<made, regs, txs, lreq, lresp, env, serving, now, ticks, users, uuids, issued, redeemed>>

\* a request to an endpoint of the gateway that depends on get_current_user,
\* sent with the client's cookie jar; client.get is given params only
GatewayProtected ==
  \E evidence \in GatewayEvidence, outcome \in CallOutcomes :
  \E cookie \in CookiesBeside(evidence[1].token) :
    LET authorization == evidence[1]
        net == outcome[1]
        g == gateway_get_current_user(authorization, net, outcome[2])
        sent == g.net # ""        \* the dependency got as far as client.get
    IN
    /\ gw' = g
    /\ req' = IF sent THEN Request("me", "", "", authorization.token, NoToken)
              ELSE NoRequest
    /\ resp' = IF sent /\ net = "response"
               THEN users_get_current_user(authorization.token) ELSE NoResponse
    /\ call' = IF sent /\ net = "response"
               THEN Call(authorization.token, NoToken, now) ELSE NoCall
    /\ greq' = GatewayRequest("me", authorization, evidence[2], cookie)
    /\ gresp' = get_me(g)
    /\ UNCHANGED <<made, regs, txs, lreq, lresp, env, serving, fwd, now, ticks, users, uuids, issued, redeemed>>

\* The identity service, called directly.
Next == Tick \/ Login \/ Refresh \/ Logout \/ Me

Spec == Init /\ [][Next]_vars

\* One client's session at the identity service: a login, then refreshes,
\* logouts and verification in any order, with the clock advancing.
NextSession == Tick \/ (issued = {} /\ Login) \/ Refresh \/ Logout \/ Me

SpecSession == Init /\ [][NextSession]_vars

\* ----------------------------------------- the gateway's proxy endpoints
\* what the identity service is left with after a call that ended as net says
Answered(net, r) == net = "response" /\ r.status = 200

GatewayLogin ==
  \E attempt \in LoginAttempts, uuid \in uuid4, net \in NetOutcomes :
    LET r == login(attempt[1], attempt[2], uuid) IN
    /\ greq' = GatewayRequest("login", NoHeader, NoToken, NoToken)
    /\ req' = Request("login", attempt[1], attempt[2], NoToken, NoToken)
    /\ resp' = IF net = "response" THEN r ELSE NoResponse
    /\ fwd' = Forward("users", "", net)
    /\ gresp' = gateway_login(r, net)
    /\ issued' = IF Answered(net, r) THEN issued \cup Handed(r, "login") ELSE issued
    /\ uuids' = IF Answered(net, r) THEN uuids \cup {uuid} ELSE uuids
    /\ gw' = NoGateway
    /\ call' = NoCall
    /\ UNCHANGED <<made, regs, txs, lreq, lresp, env, serving, now, ticks, users, redeemed>>

GatewayRefresh ==
  \E cookie \in ClientCookies, uuid \in uuid4, net \in NetOutcomes :
    LET sent == ForwardedCookie(cookie)
        r == refresh_token(sent, uuid) IN
    /\ greq' = GatewayRequest("refresh", NoHeader, NoToken, cookie)
    /\ req' = Request("refresh", "", "", NoToken, sent)
    /\ resp' = IF net = "response" THEN r ELSE NoResponse
    /\ fwd' = Forward("users", "", net)
    /\ gresp' = gateway_refresh_token(r, net)
    /\ issued' = IF Answered(net, r) THEN issued \cup Handed(r, "refresh") ELSE issued
    /\ uuids' = IF Answered(net, r) THEN uuids \cup {uuid} ELSE uuids
    /\ redeemed' = IF Answered(net, r) THEN redeemed \cup {sent} ELSE redeemed
    /\ gw' = NoGateway
    /\ call' = NoCall
    /\ UNCHANGED <<made, regs, txs, lreq, lresp, env, serving, now, ticks, users>>

GatewayLogout ==
  \E net \in NetOutcomes :
    /\ greq' = GatewayRequest("logout", NoHeader, NoToken, NoToken)
    /\ req' = Request("logout", "", "", NoToken, NoToken)
    /\ resp' = IF net = "response" THEN logout ELSE NoResponse
    /\ fwd' = Forward("users", "", net)
    /\ gresp' = gateway_logout(logout, net)
    /\ gw' = NoGateway
    /\ call' = NoCall
    /\ UNCHANGED <<made, regs, txs, lreq, lresp, env, serving, now, ticks, users, uuids, issued, redeemed>>

NextProxy == Tick \/ GatewayLogin \/ GatewayRefresh \/ GatewayLogout

SpecProxy == Init /\ [][NextProxy]_vars

\* The gateway in front of the identity service: clients log in and call the
\* endpoints that get_current_user protects.
NextGateway == Tick \/ Login \/ GatewayProtected

SpecGateway == Init /\ [][NextGateway]_vars

\* --------------------------------- the gateway in front of the ledger
\* what running the dependency get_current_user leaves behind
Depends(authorization, net, g) ==
  LET sent == g.net # "" IN
  /\ gw' = g
  /\ req' = IF sent THEN Request("me", "", "", authorization.token, NoToken)
            ELSE NoRequest
  /\ resp' = IF sent /\ net = "response"
             THEN users_get_current_user(authorization.token) ELSE NoResponse
  /\ call' = IF sent /\ net = "response"
             THEN Call(authorization.token, NoToken, now) ELSE NoCall

\* how the call of the ledger service can end, if the endpoint is reached
LedgerOutcomes(current_user) ==
  IF current_user.status = 200 THEN NetOutcomes ELSE {"response"}

GatewayTransactions ==
  \E authorization \in ClientHeaders, outcome \in CallOutcomes :
    LET net == outcome[1]
        g == gateway_get_current_user(authorization, net, outcome[2])
    IN
    \E ledger \in LedgerOutcomes(g) :
    LET r == gateway_get_transactions(g, ledger) IN
    /\ Depends(authorization, net, g)
    /\ greq' = GatewayRequest("transactions", authorization, NoToken, NoToken)
    /\ gresp' = r.response
    /\ fwd' = r.forward
    /\ UNCHANGED <<made, regs, txs, lreq, lresp, env, serving, now, ticks, users, uuids, issued, redeemed>>

GatewayCategories ==
  \E authorization \in ClientHeaders, outcome \in CallOutcomes :
    LET net == outcome[1]
        g == gateway_get_current_user(authorization, net, outcome[2])
    IN
    \E ledger \in LedgerOutcomes(g) :
    LET r == gateway_get_categories(g, ledger) IN
    /\ Depends(authorization, net, g)
    /\ greq' = GatewayRequest("categories", authorization, NoToken, NoToken)
    /\ gresp' = r.response
    /\ fwd' = r.forward
    /\ UNCHANGED <<made, regs, txs, lreq, lresp, env, serving, now, ticks, users, uuids, issued, redeemed>>

NextLedger == Tick \/ Login \/ GatewayTransactions \/ GatewayCategories

SpecLedger == Init /\ [][NextLedger]_vars

\* ------------------------------------------------------------- start-up
\* The identity service before it is started, in any environment.
InitStartup ==
  /\ now = 0
  /\ ticks = 0
  /\ users = {UserRow(i, i \in ActiveUserIds) : i \in UserIds}
  /\ uuids = {}
  /\ issued = {}
  /\ redeemed = {}
  /\ req = NoRequest
  /\ resp = NoResponse
  /\ gw = NoGateway
  /\ call = NoCall
  /\ env \in [access : KeySettings("access-secret"),
              refresh : KeySettings("refresh-secret")]
  /\ serving = FALSE
  /\ greq = NoGatewayRequest
  /\ gresp = NoResponse
  /\ fwd = NoForward
  /\ made = NoIssue
  /\ regs = NoRegistrations
  /\ txs = {}
  /\ lreq = NoLedgerRequest
  /\ lresp = NoLedgerResponse

\* uvicorn runs the app: app/auth.py is imported (the two os.getenv calls),
\* the lifespan creates the tables, and requests are accepted.
Start ==
  /\ ~serving
  /\ serving' = TRUE
  /\ UNCHANGED <<made, regs, txs, lreq, lresp, env, now, ticks, users, uuids, issued, redeemed, req, resp,
                 gw, call, greq, gresp, fwd>>

\* GET /health
Health ==
  /\ req' = Request("health", "", "", NoToken, NoToken)
  /\ resp' = Response(200, "healthy")
  /\ call' = NoCall
  /\ UNCHANGED <<made, regs, txs, lreq, lresp, env, serving, now, ticks, users, uuids, issued, redeemed, gw,
                 greq, gresp, fwd>>

NextStartup == Start \/ (serving /\ Health) \/ (serving /\ Login)

SpecStartup == InitStartup /\ [][NextStartup]_vars

\* ------------------------------------------- the functions on all tokens
\* Every token the two issuers can make: any subject, either lifetime, any
\* refresh_jti a refresh token can carry (or none), issued at any past instant.
Subjects == {ToString(i) : i \in ActiveUserIds}
Lifetimes == {Minutes(ACCESS_TOKEN_EXPIRE_MINUTES), Days(REFRESH_TOKEN_EXPIRE_DAYS)}
IssueTimes == {t \in {0} \cup ClockSteps : t <= now}
AccessTokens ==
  {create_access_token(Data(sub), ttl, rj, t) :
     sub \in Subjects, ttl \in Lifetimes, rj \in Uuids \cup {PyNone}, t \in IssueTimes}
RefreshTokens ==
  {create_refresh_token(Data(sub), ttl, u, t) :
     sub \in Subjects, ttl \in Lifetimes, u \in Uuids, t \in IssueTimes}
AnyToken ==
  AccessTokens \cup RefreshTokens \cup {Garbage, EmptyString, ForgedAccess, ForgedRefresh}

\* Tokens under the refresh key that create_refresh_token does not make: the
\* type claim is missing or not "refresh", or there is no sub claim.
OddRefreshTokens ==
  {Encode([NoToken EXCEPT !.sub = sub, !.type = type, !.jti = Uuid(1),
                          !.exp = Days(2 * REFRESH_TOKEN_EXPIRE_DAYS)],
          REFRESH_SECRET_KEY) :
     sub \in {"1", PyNone}, type \in {"refresh", "access", PyNone}}
    \ RefreshTokens

\* A token under the refresh key with type "refresh" and a subject but no jti
\* claim (create_refresh_token makes none; the holder of the key can).
NoJtiRefreshTokens ==
  {Encode([NoToken EXCEPT !.sub = "1", !.type = "refresh",
                          !.exp = Days(2 * REFRESH_TOKEN_EXPIRE_DAYS)],
          REFRESH_SECRET_KEY)}

\* Refresh tokens of subjects that may not log in any more: issued at time 0
\* to a user whose row has since been set inactive (is_active is only ever
\* changed in the database) and to one whose row is gone.
GoneUserId == 4
StaleRefreshTokens ==
  {create_refresh_token(Data(ToString(i)), Days(REFRESH_TOKEN_EXPIRE_DAYS), Uuid(1), 0) :
     i \in (UserIds \ ActiveUserIds) \cup {GoneUserId}}

\* Each run lets the clock advance and then applies one function once.
Unapplied == call = NoCall /\ req = NoRequest /\ made = NoIssue

\* verify_token applied to any token and any cookie
ApplyVerifyToken ==
  /\ Unapplied
  /\ \E token \in AnyToken,
        cookie \in AnyToken \cup NoJtiRefreshTokens \cup {NoToken} :
    /\ call' = Call(token, cookie, now)
    /\ req' = NoRequest
    /\ resp' = NoResponse
    /\ UNCHANGED <<made, regs, txs, lreq, lresp, env, serving, greq, gresp, fwd, now, ticks, users, uuids, issued, redeemed, gw>>

\* the refresh handler's answer to any cookie; nothing is handed out
ApplyRefreshToken ==
  /\ Unapplied
  /\ \E cookie \in AnyToken \cup OddRefreshTokens \cup StaleRefreshTokens
                     \cup NoJtiRefreshTokens \cup {NoToken},
        uuid \in uuid4 :
    /\ req' = Request("refresh", "", "", NoToken, cookie)
    /\ resp' = refresh_token(cookie, uuid)
    /\ call' = NoCall
    /\ UNCHANGED <<made, regs, txs, lreq, lresp, env, serving, greq, gresp, fwd, now, ticks, users, uuids, issued, redeemed, gw>>

NextTokens == (Unapplied /\ Tick) \/ ApplyVerifyToken \/ ApplyRefreshToken

SpecTokens == Init /\ [][NextTokens]_vars

\* ------------------------------------------------- the issuers on their own
\* What an issuer can be called with: a subject, the empty subject, a null
\* subject, no key at all; a lifetime that is negative, false, a second, the
\* access and the refresh lifetime of the handlers.
IssuerData == {Data("1"), Data("2"), Data(""), Data(PyNone), EmptyDict}
IssuerLifetimes ==
  {0 - Minutes(1), 0, 1, Minutes(ACCESS_TOKEN_EXPIRE_MINUTES),
   Days(REFRESH_TOKEN_EXPIRE_DAYS)}

\* create_access_token applied to any data, lifetime and refresh_jti
IssueAccess ==
  /\ Unapplied
  /\ \E data \in IssuerData, ttl \in IssuerLifetimes,
        refresh_jti \in {PyNone, Uuid(1)} :
       made' = Issue("create_access_token", data, ttl, refresh_jti, now,
                     create_access_token(data, ttl, refresh_jti, now))
  /\ UNCHANGED <<regs, txs, lreq, lresp, env, serving, greq, gresp, fwd, now, ticks, users, uuids, issued, redeemed, req, resp, gw, call>>

\* create_refresh_token applied to any data and lifetime
IssueRefresh ==
  /\ Unapplied
  /\ \E data \in IssuerData, ttl \in IssuerLifetimes, uuid \in uuid4 :
       LET token == create_refresh_token(data, ttl, uuid, now) IN
       /\ made' = Issue("create_refresh_token", data, ttl, PyNone, now, token)
       /\ uuids' = IF IsRaised(token) THEN uuids ELSE uuids \cup {uuid}
  /\ UNCHANGED <<regs, txs, lreq, lresp, env, serving, greq, gresp, fwd, now, ticks, users, issued, redeemed, req, resp, gw, call>>

\* the login handler's answer to any attempt; nothing is handed out
ApplyLogin ==
  /\ Unapplied
  /\ \E attempt \in LoginAttempts, uuid \in uuid4 :
    /\ req' = Request("login", attempt[1], attempt[2], NoToken, NoToken)
    /\ resp' = login(attempt[1], attempt[2], uuid)
    /\ call' = NoCall
    /\ UNCHANGED <<made, regs, txs, lreq, lresp, env, serving, greq, gresp, fwd, now, ticks, users, uuids, issued, redeemed, gw>>

NextIssuer ==
  (Unapplied /\ Tick) \/ IssueAccess \/ IssueRefresh \/ ApplyLogin
    \/ ApplyRefreshToken

SpecIssuer == Init /\ [][NextIssuer]_vars

\* --------------------------------------------- the ledger's repository
\* The queries made of the repository, for either user and with each page
\* (limit, offset): the filters on type, category and merchant absent or
\* set, and the filters on date and amount absent or set.
LedgerUsers == {1, 2}
Pages == {<<50, 0>>, <<1, 0>>, <<1, 1>>}
FilterArgs ==
  {Filters(u, type, cats, {}, {}, {}, {}, merchants, page[1], page[2]) :
     u \in LedgerUsers, type \in {"", "expense"}, cats \in {{}, {2}},
     merchants \in {{}, {1}}, page \in Pages}
  \cup
  {Filters(u, "", {}, dates[1], dates[2], amounts[1], amounts[2], {},
           page[1], page[2]) :
     u \in LedgerUsers,
     dates \in {<<{}, {}>>, <<{1}, {}>>, <<{}, {0}>>},
     amounts \in {<<{}, {}>>, <<{20}, {}>>, <<{}, {30}>>}, page \in Pages}

\* create_transaction: a row is added to the table
CreateTransaction ==
  /\ \E r \in TxPool \ txs : txs' = txs \cup {r}
  /\ UNCHANGED <<made, regs, lreq, lresp, env, serving, greq, gresp, fwd, now, ticks, users, uuids, issued, redeemed, req, resp, gw, call>>

\* a row is deleted in the database (no code of the service deletes one)
DeleteTransaction ==
  /\ \E r \in txs : txs' = txs \ {r}
  /\ UNCHANGED <<made, regs, lreq, lresp, env, serving, greq, gresp, fwd, now, ticks, users, uuids, issued, redeemed, req, resp, gw, call>>

\* get_transactions_with_filters called with any arguments
QueryWithFilters ==
  /\ \E q \in FilterArgs : \E rows \in get_transactions_with_filters(txs, q) :
       /\ lreq' = [fn |-> "get_transactions_with_filters", q |-> q]
       /\ lresp' = [rows |-> rows]
  /\ UNCHANGED <<made, regs, txs, env, serving, greq, gresp, fwd, now, ticks, users, uuids, issued, redeemed, req, resp, gw, call>>

\* get_transaction_by_id called for any transaction and any user
QueryById ==
  /\ \E transaction_id \in 1..MaxTxs, user_id \in LedgerUsers :
       /\ lreq' = [fn |-> "get_transaction_by_id",
                   transaction_id |-> transaction_id, user_id |-> user_id]
       /\ lresp' = [row |-> get_transaction_by_id(txs, transaction_id, user_id)]
  /\ UNCHANGED <<made, regs, txs, env, serving, greq, gresp, fwd, now, ticks, users, uuids, issued, redeemed, req, resp, gw, call>>

NextRepository ==
  CreateTransaction \/ DeleteTransaction \/ QueryWithFilters \/ QueryById

SpecRepository == Init /\ [][NextRepository]_vars

\* ------------------------------------------------ register, interleaved
\* the emails register is asked for: one that is taken and two that are not
NewEmails == {"new1@example.com", "new2@example.com"}
RegisterEmails == {EmailOf(1)} \cup NewEmails
RegisterPassword == "secret"

\* register up to its first await on the table: exists_with_email has
\* answered, and the request is refused or goes on to create the row
RegisterCheck ==
  /\ Len(regs.requests) < MaxRegisters
  /\ \E email \in RegisterEmails :
       LET exists == exists_with_email(users, email)
           request ==
             IF exists = "True"
               THEN [email |-> email, stage |-> "done",
                     resp |-> Response(400, "Email already registered")]
             ELSE IF exists = "MultipleResultsFound"
               THEN [email |-> email, stage |-> "done",
                     resp |-> InternalServerError]
             ELSE [email |-> email, stage |-> "checked", resp |-> NoResponse]
       IN regs' = [regs EXCEPT !.requests = Append(@, request)]
  /\ UNCHANGED <<made, txs, lreq, lresp, env, serving, greq, gresp, fwd, now, ticks, users, uuids, issued, redeemed, req, resp, gw, call>>

\* register from get_password_hash on: user_repo.create commits the row; a
\* unique email refuses a second row (IntegrityError, which nothing catches)
RegisterCreate ==
  \E i \in 1..Len(regs.requests) :
    LET request == regs.requests[i]
        taken == \E u \in users : u.email = request.email
        db_user == NewUserRow(users, request.email,
                              get_password_hash(RegisterPassword))
    IN
    /\ request.stage = "checked"
    /\ IF taken /\ regs.unique_email
         THEN /\ users' = users
              /\ regs' = [regs EXCEPT !.requests[i].stage = "done",
                                      !.requests[i].resp = InternalServerError]
         ELSE /\ users' = users \cup {db_user}
              /\ regs' = [regs EXCEPT !.requests[i].stage = "done",
                                      !.requests[i].resp = Registered(request.email)]
    /\ UNCHANGED <<made, txs, lreq, lresp, env, serving, greq, gresp, fwd, now, ticks, uuids, issued, redeemed, req, resp, gw, call>>

\* The identity service serving register requests, with either table.
InitRegister ==
  /\ now = 0
  /\ ticks = 0
  /\ users = {UserRow(i, i \in ActiveUserIds) : i \in UserIds}
  /\ uuids = {}
  /\ issued = {}
  /\ redeemed = {}
  /\ req = NoRequest
  /\ resp = NoResponse
  /\ gw = NoGateway
  /\ call = NoCall
  /\ env = [access |-> "access-secret", refresh |-> "refresh-secret"]
  /\ serving = TRUE
  /\ greq = NoGatewayRequest
  /\ gresp = NoResponse
  /\ fwd = NoForward
  /\ made = NoIssue
  /\ regs \in {Registrations(unique_email, <<>>) : unique_email \in BOOLEAN}
  /\ txs = {}
  /\ lreq = NoLedgerRequest
  /\ lresp = NoLedgerResponse

NextRegister == RegisterCheck \/ RegisterCreate

SpecRegister == InitRegister /\ [][NextRegister]_vars

\* ------------------------------------------------- requests to the ledger
\* X-User-ID values: none, positive, signed, with an underscore, zero,
\* negative, a fraction, letters, the empty text
HeaderTexts ==
  {<<"1">>, <<"2">>, <<"+", "2">>, <<"1", "_", "0">>, <<"0">>, <<"-", "1">>,
   <<"1", ".", "5">>, <<"a", "b">>, <<"1", "_">>, <<>>}
ClientUserIdHeaders == {{}} \cup {{text} : text \in HeaderTexts}
\* category_mcc: absent, integers, a value that is no integer alone and
\* after an integer
MccLists ==
  {<<>>, <<<<"7">>>>, <<<<"7">>, <<"1", "2">>>>, <<<<"a">>>>,
   <<<<"7">>, <<"7", "a">>>>}

GetTransactions ==
  /\ \E x_user_id \in ClientUserIdHeaders, category_mcc \in MccLists :
       /\ lreq' = [fn |-> "GET /transactions/", x_user_id |-> x_user_id,
                   category_mcc |-> category_mcc]
       /\ lresp' = ledger_get_transactions(x_user_id, category_mcc)
  /\ UNCHANGED <<made, regs, txs, env, serving, greq, gresp, fwd, now, ticks, users, uuids, issued, redeemed, req, resp, gw, call>>

\* The ledger service: its table changing and requests to its API.
NextLedgerService == CreateTransaction \/ DeleteTransaction \/ GetTransactions

SpecLedgerService == Init /\ [][NextLedgerService]_vars

\* ------------------------------------------------------------ properties
\* a well-formed token signed with the access key / the refresh key
AccessSigned(tok) == tok.form = "jwt" /\ tok.sig = ACCESS_SECRET_KEY
RefreshSigned(tok) == tok.form = "jwt" /\ tok.sig = REFRESH_SECRET_KEY
\* the last request was GET /users/me with a pair that a login handed out
MeWithLoginPair(p) ==
  /\ req.op = "me" /\ p.by = "login"
  /\ req.token = p.access /\ req.cookie = p.refresh

\* C1: after a login returned access token T1 and set the refresh cookie, a
\* call of GET /users/me presenting T1 and that cookie before T1 expires is
\* not answered with 401 "Invalid token".
C1_SessionSucceeds ==
  \A p \in issued :
    (MeWithLoginPair(p) /\ call.t <= p.access.exp)
      => ~(resp.status = 401 /\ resp.detail = "Invalid token")

\* C2: an access token that carries a refresh_jti is accepted by verify_token
\* only when a refresh token is presented, that token passes the signature
\* and expiry check under the refresh key and its jti equals the access
\* token's refresh_jti; what is returned then is the access token's claims.
C2_BindingCheck ==
  (AccessSigned(call.token) /\ call.token.refresh_jti # PyNone /\ call.result.ok)
    => /\ ~Falsy(call.cookie)
       /\ RefreshSigned(call.cookie)
       /\ call.cookie.exp >= call.t
       /\ call.cookie.jti = call.token.refresh_jti
       /\ call.result.payload = call.token

\* a bound access token was accepted beside its refresh token
C2_Witness ==
  /\ AccessSigned(call.token) /\ call.token.refresh_jti # PyNone
  /\ RefreshSigned(call.cookie)
  /\ call.result.ok

\* C3: an access token without a refresh_jti claim, validly signed and
\* unexpired, is accepted by verify_token when no refresh token is presented.
C3_UnboundAccepted ==
  (/\ AccessSigned(call.token) /\ call.token.refresh_jti = PyNone
   /\ call.token.exp >= call.t
   /\ call.cookie = NoToken)
    => call.result.ok

\* C4: in every successful login or refresh response the access token's
\* refresh_jti equals the jti of the refresh token set in the cookie.
C4_PairBound ==
  (req.op \in {"login", "refresh"} /\ resp.status = 200)
    => resp.access_token.refresh_jti = resp.cookie.jti

\* C5: every refresh token issued carries a jti that no refresh token issued
\* before carries, and a rotation's new jti differs from the redeemed one.
C5_FreshJti ==
  [][ (uuids' # uuids)
        => /\ resp'.cookie_op = "set"
           /\ resp'.cookie.jti \notin {p.refresh.jti : p \in issued}
           /\ (req'.op = "refresh" => resp'.cookie.jti # req'.cookie.jti) ]_vars

\* a rotation has issued a refresh token after refresh tokens for both users
C5_Witness ==
  /\ req.op = "refresh" /\ resp.status = 200
  /\ \E p, q \in issued : p.refresh.sub # q.refresh.sub

\* C6: a refresh token that POST /users/refresh has redeemed before is, while
\* unexpired, redeemed again: the answer is 200 with a new pair.
C6_ReplaySucceeds ==
  (req.op = "refresh" /\ req.cookie \in redeemed /\ req.cookie.exp >= now)
    => /\ resp.status = 200
       /\ [access |-> resp.access_token, refresh |-> resp.cookie,
           by |-> "refresh"] \in issued
       /\ resp.cookie # req.cookie

\* one refresh token has been redeemed twice
C6_Witness ==
  /\ req.op = "refresh" /\ resp.status = 200
  /\ Cardinality(redeemed) = 1
  /\ Cardinality({p \in issued : p.by = "refresh"}) >= 2

\* C7: after a rotation that redeemed R1, GET /users/me presenting T1 and
\* the old cookie R1 still succeeds while T1 is unexpired.
C7_OldPairSurvives ==
  \A p \in issued :
    (MeWithLoginPair(p) /\ p.refresh \in redeemed /\ call.t <= p.access.exp)
      => resp.status = 200

\* the last request was GET /users/me with an expired, validly signed token
ExpiredAtMe ==
  req.op = "me" /\ AccessSigned(req.token) /\ req.token.exp < call.t

\* C8 (as claimed): an expired access token is rejected with the reason
\* Expired.
C8_ExpiredReason ==
  ExpiredAtMe => (resp.status = 401 /\ resp.detail = "Expired")

\* C8 (amended): an expired access token is rejected by verify_token's first
\* decode whatever refresh token accompanies it; verify_token returns None,
\* which carries no reason, and the endpoint answers 401 "Invalid token".
C8_ExpiredRejected ==
  ExpiredAtMe
    => /\ ~call.result.ok /\ call.result.at = "access JWTError"
       /\ resp.status = 401 /\ resp.detail = "Invalid token"

\* an expired token was presented together with its refresh cookie
C8_Witness == ExpiredAtMe /\ req.cookie # NoToken

\* C9: a status S other than 200 and its detail D from the identity service
\* reach the gateway's client as status S and detail D.
C9_RejectionPassedOn ==
  (gw.net = "response" /\ gw.upstream \notin {0, 200})
    => (gw.status = gw.upstream /\ gw.detail = resp.detail)

\* C10: a token signed with the refresh key is rejected by verify_token's
\* first decode; a token signed with the access key is rejected by the
\* decode of the binding check and by the decode of POST /users/refresh.
C10_CrossKindRejected ==
  /\ RefreshSigned(call.token)
       => (~call.result.ok /\ call.result.at = "access JWTError")
  /\ (/\ AccessSigned(call.token) /\ call.token.exp >= call.t
      /\ call.token.refresh_jti # PyNone
      /\ AccessSigned(call.cookie))
       => (~call.result.ok /\ call.result.at = "refresh JWTError")
  /\ (req.op = "refresh" /\ AccessSigned(req.cookie))
       => (resp.status = 401 /\ resp.detail = "Invalid refresh token")

\* an unexpired refresh token was presented where the access token goes
C10_Witness ==
  RefreshSigned(call.token) /\ call.token.exp >= call.t /\ ~call.result.ok

\* what makes a refresh_token cookie unfit at clock t: it is missing or empty,
\* not a JWT, not signed with the refresh key, expired, or not of type refresh
UnfitRefresh(cookie, t) ==
  \/ Falsy(cookie)
  \/ cookie.form # "jwt"
  \/ cookie.sig # REFRESH_SECRET_KEY
  \/ cookie.exp < t
  \/ cookie.type # "refresh"

\* C11: POST /users/refresh answers 401 when the refresh_token cookie is
\* missing or empty, expired, malformed, wrongly signed or of a type other
\* than refresh; the answer carries no access token and sets no cookie.
C11_RefreshFailures ==
  (req.op = "refresh" /\ UnfitRefresh(req.cookie, now))
    => /\ resp.status = 401
       /\ resp.access_token = NoToken
       /\ resp.cookie_op = "none" /\ resp.cookie = NoToken

\* an expired refresh token of the service's own making was refused as expired
C11_Witness ==
  /\ req.op = "refresh"
  /\ RefreshSigned(req.cookie) /\ req.cookie.type = "refresh"
  /\ req.cookie.exp < now
  /\ resp.status = 401 /\ resp.detail = "Refresh token expired"

\* the last request to the gateway carried a Bearer header, so that the
\* dependency called the identity service
CalledIdentity == gw.authorization.form = "bearer"

C13_MessageIndependent ==
  (CalledIdentity /\ gw.net \in NetOutcomes \ {"response"})
    => \A message \in ExceptionMessages :
         LET other == gateway_get_current_user(gw.authorization, gw.net, message)
         IN other.status = gw.status /\ other.detail = gw.detail

\* C14: whatever the outcome of the gateway's call of /users/logout, the
\* gateway's response to POST /auth/logout carries the instruction that
\* clears the refresh_token cookie.
C14_LogoutClearsCookie ==
  greq.endpoint = "logout" => gresp.cookie_op = "delete"

\* C19: in every endpoint of the gateway that calls a collaborator service a
\* timeout of that call gives the client 504 and a refused connection 503.
C19_TimeoutsMapped ==
  fwd.sent
    => /\ fwd.net = "TimeoutException" => gresp.status = 504
       /\ fwd.net = "ConnectError" => gresp.status = 503

\* C15: with ACCESS_SECRET_KEY or REFRESH_SECRET_KEY absent or empty the
\* identity service never reaches a state in which it serves requests.
C15_MissingSecretFatal ==
  serving => (Usable(ACCESS_SECRET_KEY) /\ Usable(REFRESH_SECRET_KEY))

\* the last request to the gateway was GET /auth/me with this header form
MeAtGateway(form) == greq.endpoint = "me" /\ greq.authorization.form = form

\* C16: a request to the gateway with no Authorization header and an access
\* token from a login, unexpired, in the token query parameter is
\* authenticated: get_current_user takes the parameter's token to the
\* identity service and, on its answer, the endpoint answers 200.
C16_QueryTokenAccepted ==
  (/\ MeAtGateway("none")
   /\ \E p \in issued : p.by = "login" /\ greq.query = p.access
   /\ greq.query.exp >= now)
    => /\ req.op = "me" /\ req.token = greq.query
       /\ gw.net = "response" => gresp.status = 200

SubjectBarred(tok) ==
  LET user == get_by_id(users, IntOfStr(tok.sub))
  IN user = NoUser \/ ~user.is_active

\* C20: POST /users/refresh answers 401 and issues no tokens when the subject
\* of an otherwise valid refresh token is an inactive user or does not exist.
C20_BarredSubjectRefused ==
  (/\ req.op = "refresh"
   /\ ~UnfitRefresh(req.cookie, now) /\ Truthy(req.cookie.sub)
   /\ SubjectBarred(req.cookie))
    => /\ resp.status = 401
       /\ resp.access_token = NoToken /\ resp.cookie_op = "none"

LoginRow == get_by_email(users, req.email)
PasswordMatched ==
  LoginRow # NoUser /\ LoginRow.hashed_password = get_password_hash(req.password)
\* the response hands out nothing
NothingIssued ==
  resp.access_token = NoToken /\ resp.cookie_op = "none" /\ resp.cookie = NoToken

\* C21: login answers 401 when the email is unknown or the password does not
\* match and 400 when the password matches but the user is inactive, in both
\* cases with no access token and no cookie; tokens are issued only for an
\* active user whose password matched.
C21_LoginOutcomes ==
  req.op = "login"
    => /\ ~PasswordMatched => (resp.status = 401 /\ NothingIssued)
       /\ (PasswordMatched /\ ~LoginRow.is_active)
            => (resp.status = 400 /\ NothingIssued)
       /\ ~NothingIssued
            => (PasswordMatched /\ LoginRow.is_active /\ resp.status = 200)

\* the inactive user logged in with the right password and was refused
C21_Witness ==
  /\ req.op = "login" /\ PasswordMatched /\ ~LoginRow.is_active
  /\ resp.status = 400 /\ resp.detail = "Inactive user"

\* ------------------------------------------------------------------ C22
\* what jwt.decode gives for the token an issuer returned, at the issue time
MadeDecoded ==
  Decode(made.token,
         IF made.fn = "create_access_token" THEN ACCESS_SECRET_KEY
         ELSE REFRESH_SECRET_KEY, made.t)
\* the decoded claims are the issued ones and the lifetime is the one asked
RoundTrip ==
  /\ MadeDecoded.ok
  /\ MadeDecoded.payload.sub = SubOf(made.data)
  /\ MadeDecoded.payload.type = "access"
  /\ MadeDecoded.payload.refresh_jti = made.refresh_jti
  /\ MadeDecoded.payload.exp - MadeDecoded.payload.iat = made.ttl
  /\ MadeDecoded.payload.exp > MadeDecoded.payload.iat
\* the lifetimes of the tokens a 200 of login or refresh carries
HandlerLifetimes ==
  (req.op \in {"login", "refresh"} /\ resp.status = 200)
    => /\ resp.access_token.exp - resp.access_token.iat
            = Minutes(ACCESS_TOKEN_EXPIRE_MINUTES)
       /\ resp.cookie.exp - resp.cookie.iat = Days(REFRESH_TOKEN_EXPIRE_DAYS)

C26_NoEmptySubject ==
  made.fn \in {"create_access_token", "create_refresh_token"}
    => /\ ~IsRaised(made.token) => Truthy(made.token.sub)
       /\ ~Truthy(SubOf(made.data)) => IsRaised(made.token)

\* ------------------------------------------------------------------ C23
\* a refresh token in every respect but for its missing jti claim
LacksJti(tok) ==
  /\ tok.form = "jwt" /\ tok.sig = REFRESH_SECRET_KEY
  /\ tok.type = "refresh" /\ tok.jti = PyNone

\* C23: a refresh token without a jti claim is malformed: POST /users/refresh
\* answers 401 to it, and verify_token returns None for every access token
\* presented with it.
C23_NoJtiRejected ==
  /\ (req.op = "refresh" /\ LacksJti(req.cookie)) => resp.status = 401
  /\ (call # NoCall /\ LacksJti(call.cookie)) => ~call.result.ok

\* ------------------------------------------------------------------ C24
\* C24: the request get_current_user of the gateway sends to the identity
\* service carries the refresh_token cookie the caller sent to the gateway.
C24_CookieForwarded ==
  (greq.endpoint = "me" /\ req.op = "me") => req.cookie = greq.cookie

\* ------------------------------------------------------------------ C25
\* the access token create_access_token would bind to a refresh token
BoundTo(refresh) ==
  create_access_token(Data(refresh.sub), Minutes(ACCESS_TOKEN_EXPIRE_MINUTES),
                      refresh.jti, refresh.iat)
\* What verification is asked about, as (token, cookie): each access token
\* handed out and the access token bound to the refresh token it came with,
\* with that refresh token and with none; a forged token.
Probes ==
  UNION {{<<p.access, p.refresh>>, <<p.access, NoToken>>,
          <<BoundTo(p.refresh), p.refresh>>, <<BoundTo(p.refresh), NoToken>>} :
         p \in issued}
    \cup {<<ForgedAccess, NoToken>>}

OwnRows(rows, user_id) == {r \in rows : r.user_id = user_id}
\* every row a filtered query returned belongs to the user it was made for
OnlyOwnRows ==
  lreq.fn = "get_transactions_with_filters"
    => \A i \in 1..Len(lresp.rows) : lresp.rows[i].user_id = lreq.q.user_id
\* a query by id returned the user's own row of that id, or nothing
ByIdOwnRow ==
  lreq.fn = "get_transaction_by_id"
    => \/ lresp.row = NoTransaction
       \/ lresp.row.id = lreq.transaction_id /\ lresp.row.user_id = lreq.user_id
\* a query by id for a row of another user returns nothing
ByIdForeign ==
  (lreq.fn = "get_transaction_by_id"
     /\ \E r \in txs : r.id = lreq.transaction_id /\ r.user_id # lreq.user_id)
    => lresp.row = NoTransaction

\* C27: get_transactions_with_filters(u, ...) returns rows of u only, for
\* every filter, limit and offset; get_transaction_by_id(id, u) returns
\* nothing for a transaction of another user; and when rows of other users
\* are added or removed, what the last query can return for u is unchanged.
C27_Isolation ==
  [][/\ OnlyOwnRows' /\ ByIdOwnRow'
     /\ (txs' = txs => ByIdForeign')
     /\ (lreq.fn = "get_transactions_with_filters" /\ lreq' = lreq
           /\ OwnRows(txs', lreq.q.user_id) = OwnRows(txs, lreq.q.user_id))
          => get_transactions_with_filters(txs', lreq.q)
               = get_transactions_with_filters(txs, lreq.q)]_vars

\* a query returned rows while rows of another user matched its filters too
C27_Witness ==
  /\ lreq.fn = "get_transactions_with_filters" /\ Len(lresp.rows) > 0
  /\ lresp.rows \in get_transactions_with_filters(txs, lreq.q)
  /\ \E r \in txs : r.user_id # lreq.q.user_id /\ Filtered(r, lreq.q)

\* ------------------------------------------------------------------ C28
\* the requests for this email that register has answered
AnsweredFor(email) ==
  {i \in 1..Len(regs.requests) :
     regs.requests[i].email = email /\ regs.requests[i].stage = "done"}

\* C28: no two stored users have the same email; of the register requests
\* for an email that was not registered, at most one creates a user and each
\* other one is answered 400 'Email already registered'.
C28_EmailUnique ==
  /\ \A u, v \in users : u.email = v.email => u = v
  /\ \A email \in NewEmails :
       /\ Cardinality({i \in AnsweredFor(email) :
                         regs.requests[i].resp.status = 200}) <= 1
       /\ \A i \in AnsweredFor(email) :
            \/ regs.requests[i].resp.status = 200
            \/ regs.requests[i].resp = Response(400, "Email already registered")

\* ------------------------------------------------------------------ C29
\* the X-User-ID header of the last request, if it was a GET /transactions/
\* with the header present
SentUserId == CHOOSE text \in lreq.x_user_id : TRUE
HeaderSent == lreq.fn = "GET /transactions/" /\ lreq.x_user_id # {}

\* C29: the handler is given the integer n exactly when the X-User-ID value
\* parses as an integer n > 0; every other present value is answered 400
\* 'Invalid user ID in headers', the handler is not run and no query is made.
C29_HeaderValidated ==
  HeaderSent
    => IF PyInt(SentUserId).ok /\ PyInt(SentUserId).value > 0
       THEN lresp.user_id = PyInt(SentUserId).value /\ lresp.status # 400
       ELSE /\ lresp.status = 400 /\ lresp.detail = "Invalid user ID in headers"
            /\ lresp.user_id = 0 /\ ~lresp.queried

C29_Witness ==
  /\ HeaderSent /\ SentUserId = <<"0">>
  /\ lresp.status = 400 /\ lresp.detail = "Invalid user ID in headers"

\* ------------------------------------------------------------------ C30
\* C30: a category_mcc value that is no integer is answered 400 'Invalid MCC
\* codes format', not 500.
C30_InvalidMccIs400 ==
  (HeaderSent /\ get_user_id_from_header(SentUserId).ok
     /\ \E i \in 1..Len(lreq.category_mcc) : ~PyInt(lreq.category_mcc[i]).ok)
    => lresp.status = 400 /\ lresp.detail = "Invalid MCC codes format"

====
